---- MODULE Spec2Model ----
(***************************************************************************)
(* State-machine model of ContextResponse (src/nlp.py, lines 116-202): the *)
(* online negative-sampling pair generator.  One ContextResponse object is *)
(* constructed and then driven one dialogue per call; every call is fully  *)
(* consumed before the next one starts.  __call__ and create_pairs are     *)
(* generators, so a call is modelled by the steps between its suspension   *)
(* points (the yields) and the places where it can raise.                  *)
(*                                                                         *)
(* Utterances are the integers 1 .. NumUtterances (only equality matters). *)
(* Sequences are 1-based here and 0-based in the source: the source's      *)
(* dialogue[j] is dialogue[j + 1] below.                                   *)
(***************************************************************************)
EXTENDS Integers, Sequences, FiniteSets, TLC

(***************************************************************************)
(* Bounds of the model.                                                    *)
(***************************************************************************)
MaxTotal == 4
MaxContext == 3
MaxBuffer == 4
MaxNegative == 3
MaxLen == 2
NumUtterances == 2
MaxCalls == 3
RecursionLimit == 3

VARIABLES
    pc,               \* position of the program: see PcValues
    args,             \* the arguments __init__ was called with
    total_dialogues,  \* self.total_dialogues
    context_size,     \* self.context_size
    buffer_size,      \* self.buffer_size
    num_negative,     \* self.num_negative
    buffer,           \* self.buffer, leftmost element first
    initial_samples,  \* self.initial_samples
    prev_utterances,  \* self.prev_utterances
    counter,          \* self.counter
    stack,            \* active FLUSH frames, innermost first: what is left of `dialogues`
    dialogue,         \* the argument of the running create_pairs
    i,                \* create_pairs: window start
    k,                \* create_pairs: negatives already emitted for window i
    loop_c,           \* create_pairs: loop_c
    negative,         \* create_pairs: the candidate in hand (0: none)
    out,              \* pairs yielded by the running (or last) create_pairs
    wins,             \* history: wins[j] is the window start of out[j]
    calls,            \* history: number of top-level calls made
    mode              \* history: the branch the last run of __call__ took

vars == << pc, args, total_dialogues, context_size, buffer_size, num_negative,
           buffer, initial_samples, prev_utterances, counter, stack, dialogue,
           i, k, loop_c, negative, out, wins, calls, mode >>

PcValues == { "new", "config_error", "idle", "draw", "retry", "positive",
              "pool_exhausted", "deadlock", "recursion_error" }

Utterances == 1 .. NumUtterances

SeqsUpTo(S, n) == UNION { [1 .. m -> S] : m \in 0 .. n }

Dialogues == SeqsUpTo(Utterances, MaxLen)

Min(a, b) == IF a <= b THEN a ELSE b

Max(a, b) == IF a >= b THEN a ELSE b

(***************************************************************************)
(* Python and deque primitives.                                            *)
(***************************************************************************)

\* s[:n] of a Python list: a negative n counts from the end.
PySliceTo(s, n) ==
    IF n >= 0 THEN SubSeq(s, 1, Min(n, Len(s)))
              ELSE SubSeq(s, 1, Max(Len(s) + n, 0))

\* s[a:b] of a Python list, for 0 <= a <= b.
PySlice(s, a, b) == SubSeq(s, Min(a, Len(s)) + 1, Min(b, Len(s)))

\* x in s, for a Python list s.
PyIn(x, s) == \E j \in 1 .. Len(s) : s[j] = x

\* deque.append on a deque of the given maxlen: a full deque drops its leftmost element.
DequeAppend(s, x, maxlen) ==
    IF maxlen = 0 THEN s
    ELSE IF Len(s) >= maxlen THEN Append(Tail(s), x)
    ELSE Append(s, x)

\* deque.extend: append the elements left to right.
RECURSIVE DequeExtend(_, _, _)
DequeExtend(s, xs, maxlen) ==
    IF xs = << >> THEN s
    ELSE DequeExtend(DequeAppend(s, Head(xs), maxlen), Tail(xs), maxlen)

\* deque.rotate(n), n >= 0: n steps to the right; nothing on an empty deque.
Rotate(s, n) ==
    IF Len(s) = 0 THEN s
    ELSE LET m == n % Len(s)
         IN  SubSeq(s, Len(s) - m + 1, Len(s)) \o SubSeq(s, 1, Len(s) - m)

\* deque.pop(): the rightmost element and the rest (only for a non-empty deque).
PopValue(s) == s[Len(s)]

PopRest(s) == SubSeq(s, 1, Len(s) - 1)

(***************************************************************************)
(* __init__                                                                *)
(***************************************************************************)

\* The two asserts of __init__, on the arguments as passed.
AssertsHold(td, bs, nn) == nn < bs /\ bs <= td

\* self.num_negative = int(num_negative) if num_negative else 1
StoredNumNegative(nn) == IF nn # 0 THEN nn ELSE 1

\* Mutant of BufferMaxlen: the deque is created one element too large.
BufferMaxlenPlusOne == buffer_size + 1

\* deque(maxlen=self.buffer_size)
BufferMaxlen == buffer_size

Init ==
    /\ pc = "new"
    /\ args = << 0, 0, 0, 0 >>
    /\ total_dialogues = 0
    /\ context_size = 0
    /\ buffer_size = 0
    /\ num_negative = 0
    /\ buffer = << >>
    /\ initial_samples = << >>
    /\ prev_utterances = << >>
    /\ counter = 0
    /\ stack = << >>
    /\ dialogue = << >>
    /\ i = 0
    /\ k = 0
    /\ loop_c = 0
    /\ negative = 0
    /\ out = << >>
    /\ wins = << >>
    /\ calls = 0
    /\ mode = "none"

Construct(td, cs, bs, nn) ==
    /\ pc = "new"
    /\ args' = << td, cs, bs, nn >>
    /\ IF AssertsHold(td, bs, nn)
       THEN /\ pc' = "idle"
            /\ total_dialogues' = td
            /\ context_size' = cs
            /\ buffer_size' = bs
            /\ num_negative' = StoredNumNegative(nn)
       ELSE /\ pc' = "config_error"
            /\ UNCHANGED << total_dialogues, context_size, buffer_size, num_negative >>
    /\ UNCHANGED << buffer, initial_samples, prev_utterances, counter, stack,
                    dialogue, i, k, loop_c, negative, out, wins, calls, mode >>

(***************************************************************************)
(* __call__                                                                *)
(***************************************************************************)

\* Mutant of ExtendedBuffer: the whole carry-over is inserted, whatever the room.
ExtendedBufferNoLimit == DequeExtend(buffer, prev_utterances, BufferMaxlen)

\* Line 149: the buffer after the carry-over of the previous call is inserted.
ExtendedBuffer ==
    DequeExtend(buffer,
                PySliceTo(prev_utterances,
                          Min(Len(prev_utterances), BufferMaxlen - Len(buffer))),
                BufferMaxlen)

\* Line 150: the carry-over computed from dialogue d.
CarryOver(d) ==
    PySliceTo(d, Min((Len(d) - context_size) * num_negative, Len(d)))

\* Mutant of WarmupFill: the dialogue is read from its head, not from its tail.
RECURSIVE WarmupFillFromHead(_, _, _)
WarmupFillFromHead(buf, d, j) ==
    IF j # 0 /\ Len(buf) < buffer_size
    THEN WarmupFillFromHead(DequeAppend(buf, d[Len(d) - j + 1], BufferMaxlen), d, j - 1)
    ELSE buf

\* Lines 152-155: the warmup loop, j being the source's i before `i -= 1`.
RECURSIVE WarmupFill(_, _, _)
WarmupFill(buf, d, j) ==
    IF j # 0 /\ Len(buf) < buffer_size
    THEN WarmupFill(DequeAppend(buf, d[j], BufferMaxlen), d, j - 1)
    ELSE buf

\* Mutant of NoWindow: only the empty dialogue is refused.
NoWindowEmptyOnly(d) == d = << >>

\* Line 175: create_pairs returns at once.
NoWindow(d) == d = << >> \/ ~(Len(d) > context_size)

\* Lines 178-179 for window start w (0-based, as in the source).
Context(d, w) == PySlice(d, w, w + context_size)

Response(d, w) == d[w + context_size + 1]

\* Mutant of Collides: the comparison with the response is forgotten.
CollidesContextOnly(neg, context, response) == PyIn(neg, context)

\* Line 190: the candidate collides with the window.
Collides(neg, context, response) == PyIn(neg, context) \/ neg = response

\* The locals of create_pairs when no create_pairs is running.
NoLocals ==
    /\ i' = 0
    /\ k' = 0
    /\ loop_c' = 0
    /\ negative' = 0

\* Lines 177-183: enter window w with the pool buf: loop_c is set once per window.
StartWindow(w, buf) ==
    /\ i' = w
    /\ k' = 0
    /\ loop_c' = Len(buf)
    /\ negative' = 0
    /\ pc' = IF num_negative > 0 THEN "draw" ELSE "positive"

\* Mutant of PoolBelowCapacity: only an empty pool counts as not warmed.
PoolEmpty(buf) == Len(buf) = 0

\* Line 151: the pool is still below capacity (WARMUP).
PoolBelowCapacity(buf) == Len(buf) < buffer_size

\* Mutant of FlushDue: the test is >= instead of ==.
FlushDueOrOverdue == counter + 1 >= total_dialogues

\* Line 159, after the increment of line 148: the pass counter says FLUSH.
FlushDue == counter + 1 = total_dialogues

\* Mutant of ReplayList: the deferred dialogues are replayed before d.
ReplayListDeferredFirst(d) == initial_samples \o << d >>

\* Lines 160-161: the dialogues a FLUSH replays.
ReplayList(d) == << d >> \o initial_samples

\* Lines 148-168 (with the entry of create_pairs, lines 175-182): one run of
\* __call__ on d, up to its first suspension; stk is the stack of FLUSH frames
\* the run returns to.
Enter(d, stk) ==
    /\ dialogue' = d
    /\ out' = << >>
    /\ wins' = << >>
    /\ prev_utterances' = CarryOver(d)
    /\ LET buf == ExtendedBuffer
       IN  IF PoolBelowCapacity(buf)
           THEN \* WARMUP, lines 152-157
                /\ buffer' = WarmupFill(buf, d, Len(d))
                /\ initial_samples' = Append(initial_samples, d)
                /\ counter' = counter + 1
                /\ stack' = stk
                /\ pc' = "idle"
                /\ mode' = "warmup"
                /\ NoLocals
           ELSE IF FlushDue
           THEN \* FLUSH, lines 160-166
                /\ buffer' = buf
                /\ initial_samples' = << >>
                /\ counter' = 0
                /\ mode' = "flush"
                /\ NoLocals
                /\ IF Len(stk) < RecursionLimit
                   THEN /\ stack' = << ReplayList(d) >> \o stk
                        /\ pc' = "idle"
                   ELSE /\ stack' = stk
                        /\ pc' = "recursion_error"
           ELSE \* STEADY, line 168
                /\ buffer' = buf
                /\ counter' = counter + 1
                /\ stack' = stk
                /\ UNCHANGED initial_samples
                /\ mode' = "steady"
                /\ IF NoWindow(d)
                   THEN pc' = "idle" /\ NoLocals
                   ELSE StartWindow(0, buf)

\* A top-level call builder(d), consumed to the end before the next one.
Call(d) ==
    /\ pc = "idle"
    /\ stack = << >>
    /\ calls < MaxCalls
    /\ calls' = calls + 1
    /\ Enter(d, << >>)
    /\ UNCHANGED << args, total_dialogues, context_size, buffer_size, num_negative >>

\* Lines 165-166: the FLUSH loop re-invokes __call__ on its next dialogue.
Replay ==
    /\ pc = "idle"
    /\ stack # << >>
    /\ Head(stack) # << >>
    /\ Enter(Head(Head(stack)), << Tail(Head(stack)) >> \o Tail(stack))
    /\ UNCHANGED << args, total_dialogues, context_size, buffer_size, num_negative,
                    calls >>

\* Line 165: the FLUSH loop is over, its __call__ returns.
Return ==
    /\ pc = "idle"
    /\ stack # << >>
    /\ Head(stack) = << >>
    /\ stack' = Tail(stack)
    /\ UNCHANGED << pc, args, total_dialogues, context_size, buffer_size,
                    num_negative, buffer, initial_samples, prev_utterances,
                    counter, dialogue, i, k, loop_c, negative, out, wins, calls, mode >>

(***************************************************************************)
(* create_pairs                                                            *)
(***************************************************************************)

\* Mutant of Draw: an empty pool is reported as a deadlock.
DrawEmptyIsDeadlock(r) ==
    /\ pc = "draw"
    /\ IF buffer = << >>
       THEN /\ pc' = "deadlock"
            /\ UNCHANGED << buffer, negative >>
       ELSE /\ negative' = PopValue(Rotate(buffer, r))
            /\ buffer' = PopRest(Rotate(buffer, r))
            /\ pc' = "retry"
    /\ UNCHANGED << args, total_dialogues, context_size, buffer_size, num_negative,
                    initial_samples, prev_utterances, counter, stack, dialogue,
                    i, k, loop_c, out, wins, calls, mode >>

\* Lines 184-188: rotate by r = random.randrange(buffer_size) and pop.
Draw(r) ==
    /\ pc = "draw"
    /\ IF buffer = << >>
       THEN /\ pc' = "pool_exhausted"
            /\ UNCHANGED << buffer, negative >>
       ELSE /\ negative' = PopValue(Rotate(buffer, r))
            /\ buffer' = PopRest(Rotate(buffer, r))
            /\ pc' = "retry"
    /\ UNCHANGED << args, total_dialogues, context_size, buffer_size, num_negative,
                    initial_samples, prev_utterances, counter, stack, dialogue,
                    i, k, loop_c, out, wins, calls, mode >>

\* Line 190: the condition of the while loop.
RetryCondition ==
    Collides(negative, Context(dialogue, i), Response(dialogue, i)) /\ loop_c # 0

\* Lines 191-194: one turn of the while loop, r = random.randrange(buffer_size).
Redraw(r) ==
    /\ pc = "retry"
    /\ RetryCondition
    /\ LET pushed == Rotate(DequeAppend(buffer, negative, BufferMaxlen), r)
       IN  /\ negative' = PopValue(pushed)
           /\ buffer' = PopRest(pushed)
    /\ loop_c' = loop_c - 1
    /\ UNCHANGED << pc, args, total_dialogues, context_size, buffer_size,
                    num_negative, initial_samples, prev_utterances, counter, stack,
                    dialogue, i, k, out, wins, calls, mode >>

\* Mutant of DeadlockTest: the test never fires.
DeadlockTestNever == loop_c < 0

\* Line 195: the test made when the while loop is left.
DeadlockTest == loop_c = 0

\* Lines 195-196: raise the 'Loop detected' exception.
RaiseDeadlock ==
    /\ pc = "retry"
    /\ ~RetryCondition
    /\ DeadlockTest
    /\ pc' = "deadlock"
    /\ UNCHANGED << args, total_dialogues, context_size, buffer_size, num_negative,
                    buffer, initial_samples, prev_utterances, counter, stack,
                    dialogue, i, k, loop_c, negative, out, wins, calls, mode >>

\* Mutant of EmitNegative: the accepted candidate is also returned to the pool.
EmitNegativeKeepsCandidate ==
    /\ pc = "retry"
    /\ ~RetryCondition
    /\ ~DeadlockTest
    /\ out' = Append(out, [context |-> Context(dialogue, i),
                           response |-> negative, label |-> 0])
    /\ wins' = Append(wins, i)
    /\ k' = k + 1
    /\ negative' = 0
    /\ buffer' = DequeAppend(buffer, negative, BufferMaxlen)
    /\ pc' = IF k + 1 < num_negative THEN "draw" ELSE "positive"
    /\ UNCHANGED << args, total_dialogues, context_size, buffer_size, num_negative,
                    initial_samples, prev_utterances, counter, stack,
                    dialogue, i, loop_c, calls, mode >>

\* Mutant of EmitNegative: the positive pair follows the first negative.
EmitNegativeOnce ==
    /\ pc = "retry"
    /\ ~RetryCondition
    /\ ~DeadlockTest
    /\ out' = Append(out, [context |-> Context(dialogue, i),
                           response |-> negative, label |-> 0])
    /\ wins' = Append(wins, i)
    /\ k' = k + 1
    /\ negative' = 0
    /\ pc' = "positive"
    /\ UNCHANGED << args, total_dialogues, context_size, buffer_size, num_negative,
                    buffer, initial_samples, prev_utterances, counter, stack,
                    dialogue, i, loop_c, calls, mode >>

\* Lines 197-199: yield the label-0 pair.
EmitNegative ==
    /\ pc = "retry"
    /\ ~RetryCondition
    /\ ~DeadlockTest
    /\ out' = Append(out, [context |-> Context(dialogue, i),
                           response |-> negative, label |-> 0])
    /\ wins' = Append(wins, i)
    /\ k' = k + 1
    /\ negative' = 0
    /\ pc' = IF k + 1 < num_negative THEN "draw" ELSE "positive"
    /\ UNCHANGED << args, total_dialogues, context_size, buffer_size, num_negative,
                    buffer, initial_samples, prev_utterances, counter, stack,
                    dialogue, i, loop_c, calls, mode >>

\* Lines 200-202: yield the label-1 pair, then the next window or the end.
EmitPositive ==
    /\ pc = "positive"
    /\ out' = Append(out, [context |-> Context(dialogue, i),
                           response |-> Response(dialogue, i), label |-> 1])
    /\ wins' = Append(wins, i)
    /\ IF i + 1 < Len(dialogue) - context_size
       THEN StartWindow(i + 1, buffer)
       ELSE pc' = "idle" /\ NoLocals
    /\ UNCHANGED << args, total_dialogues, context_size, buffer_size, num_negative,
                    buffer, initial_samples, prev_utterances, counter, stack,
                    dialogue, calls, mode >>

Next ==
    \/ \E td \in 0 .. MaxTotal, cs \in 0 .. MaxContext,
          bs \in 0 .. MaxBuffer, nn \in 0 .. MaxNegative : Construct(td, cs, bs, nn)
    \/ \E d \in Dialogues : Call(d)
    \/ Replay
    \/ Return
    \/ \E r \in 0 .. buffer_size - 1 : Draw(r)
    \/ \E r \in 0 .. buffer_size - 1 : Redraw(r)
    \/ RaiseDeadlock
    \/ EmitNegative
    \/ EmitPositive

\* The steps of a call that is being consumed: everything but the caller's own moves.
Running ==
    \/ Replay
    \/ Return
    \/ \E r \in 0 .. buffer_size - 1 : Draw(r)
    \/ \E r \in 0 .. buffer_size - 1 : Redraw(r)
    \/ RaiseDeadlock
    \/ EmitNegative
    \/ EmitPositive

Spec == Init /\ [][Next]_vars

\* A call, once started, is consumed to its end (or to its exception).
FairSpec == Spec /\ WF_vars(Running)

TypeOK ==
    /\ pc \in PcValues
    /\ mode \in { "none", "warmup", "flush", "steady" }
    /\ counter \in Nat
    /\ loop_c \in Nat
    /\ negative \in Utterances \cup { 0 }
    /\ dialogue \in Dialogues

(***************************************************************************)
(* Vocabulary of the properties, written without the operators above.      *)
(***************************************************************************)

\* The program has been constructed and has not failed.
Constructed == pc \notin { "new", "config_error" }

\* Utterance u is the response or in the context of window w of dialogue d.
InWindow(u, d, w) ==
    \/ u = d[w + context_size + 1]
    \/ \E m \in 1 .. context_size : u = d[w + m]

\* The step is a run of __call__ (top-level or replay) on dialogue'.
EnterStep ==
    /\ pc = "idle"
    /\ stack = << >> \/ Head(stack) # << >>
    /\ vars' # vars

\* The arguments of __init__ are in the ranges the configuration is documented
\* to have: context_size >= 1 and 1 <= num_negative < buffer_size <= total_dialogues.
DocumentedArgs ==
    /\ args[2] >= 1
    /\ args[4] >= 1
    /\ args[4] < args[3]
    /\ args[3] <= args[1]

\* Number of windows of dialogue d.
Windows(d) == IF Len(d) > context_size THEN Len(d) - context_size ELSE 0

(***************************************************************************)
(* C1                                                                      *)
(***************************************************************************)

NegativesAvoidWindow ==
    \A j \in DOMAIN out :
        out[j].label = 0 => ~InWindow(out[j].response, dialogue, wins[j])

\* C1: every emitted label-0 pair has a response that differs from the true
\* response of its window and from every utterance of its context; and when
\* the retry loop of a draw ends with a candidate that still collides, the
\* next step raises the deadlock error and nothing is emitted.
C1_NegativeNeverCollides ==
    /\ []NegativesAvoidWindow
    /\ [][(pc = "retry" /\ loop_c = 0 /\ InWindow(negative, dialogue, i))
            => (pc' = "deadlock" /\ out' = out)]_vars

\* C1 witness: a negative has been emitted for a window after at least one
\* colliding candidate was pushed back (loop_c is below the pool size the
\* window started with).
C1_Witness ==
    /\ pc = "positive"
    /\ out # << >>
    /\ out[Len(out)].label = 0
    /\ loop_c < Len(buffer) + k

(***************************************************************************)
(* C2                                                                      *)
(***************************************************************************)

\* out[j] is what position j of the pair sequence of dialogue d must be.
WellPlaced(j, d) ==
    LET w == (j - 1) \div (num_negative + 1)
        p == (j - 1) % (num_negative + 1)
    IN  /\ wins[j] = w
        /\ Len(out[j].context) = context_size
        /\ \A m \in 1 .. context_size : out[j].context[m] = d[w + m]
        /\ out[j].label = IF p = num_negative THEN 1 ELSE 0
        /\ p = num_negative => out[j].response = d[w + context_size + 1]

\* C2: while a dialogue with windows is sampled, the pairs emitted so far are,
\* window by window in increasing order, num_negative label-0 pairs and then
\* the label-1 pair with the true response, all with the window's context of
\* context_size utterances; when the sampling ends without error the sequence
\* has exactly (num_negative + 1) pairs per window.
C2_PairSequenceShape ==
    (Constructed /\ mode = "steady" /\ Len(dialogue) > context_size) =>
        /\ \A j \in DOMAIN out : WellPlaced(j, dialogue)
        /\ Len(out) <= Windows(dialogue) * (num_negative + 1)
        /\ pc = "idle" => Len(out) = Windows(dialogue) * (num_negative + 1)

\* C2 witness: a dialogue with two windows and two negatives per window has
\* been sampled to the end.
C2_Witness ==
    /\ pc = "idle"
    /\ mode = "steady"
    /\ Windows(dialogue) = 2
    /\ num_negative = 2
    /\ Len(out) = 6

(***************************************************************************)
(* C3                                                                      *)
(***************************************************************************)

\* A pass of total_dialogues top-level calls has just been consumed.
PassEnd ==
    /\ pc = "idle"
    /\ stack = << >>
    /\ calls > 0
    /\ calls % total_dialogues = 0

\* C3: every dialogue supplied in a pass has its pairs emitted for that pass
\* and none stays in the Deferred Dialogue Set: when a pass ends (under a
\* configuration in the documented ranges), either no dialogue that has a
\* window is still deferred, or the pass counter is below total_dialogues so
\* that a later call can still reach the FLUSH that replays it.
C3_DeferredAreReplayed ==
    (PassEnd /\ DocumentedArgs) =>
        \/ \A j \in DOMAIN initial_samples : Len(initial_samples[j]) <= context_size
        \/ counter < total_dialogues

(***************************************************************************)
(* C4                                                                      *)
(***************************************************************************)

\* C4: in every reachable state, also in the middle of a retry loop, the pool
\* holds between 0 and buffer_size utterances.
C4_PoolWithinCapacity == Len(buffer) >= 0 /\ Len(buffer) <= buffer_size

\* C4 witness: in the middle of a retry loop, after a push-back, the pool and
\* the candidate in hand together are a full pool.
C4_Witness ==
    /\ pc = "retry"
    /\ loop_c < buffer_size
    /\ Len(buffer) + 1 = buffer_size
    /\ k = 0

(***************************************************************************)
(* C5                                                                      *)
(***************************************************************************)

\* C5: construction fails when num_negative >= buffer_size or buffer_size >
\* total_dialogues, and a constructed Builder stores parameters with
\* num_negative < buffer_size <= total_dialogues.
C5_ConstructionValidates ==
    /\ (pc # "new" /\ (args[4] >= args[3] \/ args[3] > args[1]))
          => pc = "config_error"
    /\ Constructed => (num_negative < buffer_size /\ buffer_size <= total_dialogues)

(***************************************************************************)
(* C6                                                                      *)
(***************************************************************************)

\* Every utterance in the pool collides with the current window.
PoolAllCollide == \A j \in DOMAIN buffer : InWindow(buffer[j], dialogue, i)

\* C6: a draw that begins with a non-empty pool all of whose utterances
\* collide with the window never emits a pair, spends one unit of loop_c at
\* every redraw, and ends with the deadlock error, whatever the rotations.
C6_AllCollidingDrawDeadlocks ==
    /\ [][(pc = "draw" /\ buffer # << >> /\ PoolAllCollide)
            => /\ pc' = "retry"
               /\ out' = out
               /\ InWindow(negative', dialogue', i')
               /\ PoolAllCollide']_vars
    /\ [][(pc = "retry" /\ InWindow(negative, dialogue, i) /\ PoolAllCollide)
            => /\ out' = out
               /\ \/ pc' = "deadlock"
                  \/ /\ pc' = "retry"
                     /\ loop_c' < loop_c
                     /\ InWindow(negative', dialogue', i')
                     /\ PoolAllCollide']_vars
    /\ (pc = "draw" /\ buffer # << >> /\ PoolAllCollide) ~> (pc = "deadlock")

\* C6 witness: the deadlock error has been raised for the second draw of a
\* window, after redraws, with a pool that only holds colliding utterances.
C6_Witness ==
    /\ pc = "deadlock"
    /\ k = 1
    /\ buffer # << >>
    /\ PoolAllCollide
    /\ InWindow(negative, dialogue, i)

(***************************************************************************)
(* C7                                                                      *)
(***************************************************************************)

\* C7: the deadlock error is raised only when no acceptable candidate exists:
\* the candidate in hand and every utterance in the pool collide with the
\* window (stated for configurations in the documented ranges).
C7_DeadlockOnlyWithoutCandidate ==
    (pc = "deadlock" /\ DocumentedArgs) =>
        /\ InWindow(negative, dialogue, i)
        /\ PoolAllCollide

(***************************************************************************)
(* C8                                                                      *)
(***************************************************************************)

\* C8: a draw that begins on an empty pool raises the pool-exhausted error:
\* no pair is emitted for it and no deadlock is reported.
C8_EmptyPoolDrawFails ==
    [][(pc = "draw" /\ buffer = << >>)
         => (pc' = "pool_exhausted" /\ out' = out)]_vars

\* C8 witness: the pool-exhausted error has been raised after earlier draws
\* of the same dialogue emptied the pool.
C8_Witness ==
    /\ pc = "pool_exhausted"
    /\ out # << >>

(***************************************************************************)
(* C9                                                                      *)
(***************************************************************************)

\* C9: a run of __call__ on a dialogue with at most context_size utterances
\* suspends with no pair emitted, no candidate drawn (the pool keeps its
\* contents, possibly extended) and no error.
C9_ShortDialogueYieldsNothing ==
    [][(EnterStep /\ Len(dialogue') <= context_size)
         => /\ pc' = "idle"
            /\ out' = << >>
            /\ negative' = 0
            /\ Len(buffer') >= Len(buffer)
            /\ SubSeq(buffer', 1, Len(buffer)) = buffer]_vars

\* C9 witness: a non-empty dialogue without a window went through the
\* sampling procedure (STEADY).
C9_Witness ==
    /\ pc = "idle"
    /\ mode = "steady"
    /\ dialogue # << >>
    /\ Len(dialogue) <= context_size

(***************************************************************************)
(* C10                                                                     *)
(***************************************************************************)

\* The pool once the carry-over of the previous call is inserted.
Carried ==
    buffer \o SubSeq(prev_utterances, 1,
                     Min(Len(prev_utterances), buffer_size - Len(buffer)))

\* C10: a run of __call__ that finds the pool below buffer_size after the
\* carry-over insertion emits nothing, draws nothing, appends its dialogue
\* once to the end of the Deferred Dialogue Set, and appends to the pool the
\* utterances d[len-1], d[len-2], ... until the pool is full or d is used up.
C10_WarmupFillsFromTail ==
    [][(EnterStep /\ Len(Carried) < buffer_size)
         => LET d == dialogue'
                n == Min(Len(d), buffer_size - Len(Carried))
            IN  /\ pc' = "idle"
                /\ out' = << >>
                /\ negative' = 0
                /\ initial_samples' = Append(initial_samples, d)
                /\ Len(buffer') = Len(Carried) + n
                /\ SubSeq(buffer', 1, Len(Carried)) = Carried
                /\ \A m \in 1 .. n : buffer'[Len(Carried) + m] = d[Len(d) - m + 1]]_vars

\* C10 witness: a second warmup call filled the pool to capacity with only
\* the last utterance of its two-utterance dialogue.
C10_Witness ==
    /\ pc = "idle"
    /\ mode = "warmup"
    /\ Len(initial_samples) = 2
    /\ Len(dialogue) = 2
    /\ dialogue[1] # dialogue[2]
    /\ buffer_size = 3
    /\ Len(buffer) = 3
    /\ buffer[3] = dialogue[2]

(***************************************************************************)
(* C11                                                                     *)
(***************************************************************************)

\* The dialogue a run of __call__ is given, and the FLUSH frames around it.
EnteredDialogue == IF stack = << >> THEN dialogue' ELSE Head(Head(stack))

FramesAround ==
    IF stack = << >> THEN << >> ELSE << Tail(Head(stack)) >> \o Tail(stack)

\* C11: a run of __call__ on d that finds the pool at capacity with the pass
\* counter at total_dialogues empties the Deferred Dialogue Set and resets the
\* counter before anything is replayed, leaves the pool as the carry-over
\* insertion made it, emits nothing itself, and queues d followed by the
\* deferred dialogues in recorded order; every replay then takes the first
\* dialogue still queued in the innermost FLUSH, so that the pairs come out
\* in that order.
C11_FlushReplaysInOrder ==
    /\ [][(EnterStep /\ Len(Carried) >= buffer_size
                     /\ counter + 1 = total_dialogues)
            => /\ initial_samples' = << >>
               /\ counter' = 0
               /\ buffer' = Carried
               /\ out' = << >>
               /\ pc' = "idle"
               /\ stack' = << << EnteredDialogue >> \o initial_samples >>
                              \o FramesAround]_vars
    /\ [][(EnterStep /\ stack # << >>)
            => /\ dialogue' = Head(Head(stack))
               /\ \E n \in 1 .. Len(stack') :
                     SubSeq(stack', n, Len(stack')) = FramesAround]_vars
    /\ [][(pc # "idle" /\ stack # << >>) => stack' = stack]_vars

\* C11 witness: a FLUSH has replayed its dialogue and then the deferred
\* dialogue, which has just been sampled to the end (the counter, reset by
\* the FLUSH, counts the two replays).
C11_Witness ==
    /\ pc = "idle"
    /\ Len(stack) = 1
    /\ Head(stack) = << >>
    /\ mode = "steady"
    /\ out # << >>
    /\ counter = 2
    /\ calls = total_dialogues

(***************************************************************************)
(* C12                                                                     *)
(***************************************************************************)

\* C12: the sampling procedure starts on a dialogue (top-level call or
\* replay) only with a pool of exactly buffer_size utterances, and a run of
\* __call__ that finds the pool below buffer_size after the carry-over
\* insertion ends without a pair and without starting the sampling.
C12_PairsOnlyFromWarmedPool ==
    /\ [][(EnterStep /\ pc' \in { "draw", "retry", "positive" })
            => (Len(buffer') = buffer_size /\ Len(Carried) = buffer_size)]_vars
    /\ [][(EnterStep /\ Len(Carried) < buffer_size)
            => (pc' = "idle" /\ out' = << >>)]_vars
    /\ [][(Len(out') > Len(out))
            => (pc \in { "retry", "positive" } /\ mode = "steady")]_vars

\* C12 witness: a replay sub-call is about to make the first draw of its
\* dialogue, with a full pool.
C12_Witness ==
    /\ pc = "draw"
    /\ stack # << >>
    /\ i = 0
    /\ k = 0
    /\ out = << >>
    /\ Len(buffer) = buffer_size

(***************************************************************************)
(* C13                                                                     *)
(***************************************************************************)

\* Occurrences of utterance u in sequence s.
Count(u, s) == Cardinality({ j \in DOMAIN s : s[j] = u })

\* Occurrences of u among the negative responses emitted so far.
EmittedNegatives(u) ==
    Cardinality({ j \in DOMAIN out : out[j].label = 0 /\ out[j].response = u })

\* Occurrences of u in the pool, in hand or among the emitted negatives.
Held(u) ==
    Count(u, buffer) + EmittedNegatives(u) + (IF negative = u THEN 1 ELSE 0)

\* Negative pairs emitted so far.
NegativesOut == Cardinality({ j \in DOMAIN out : out[j].label = 0 })

\* C13: while a dialogue is sampled, every step keeps, for every utterance,
\* the number of its copies in the pool, in hand and among the emitted
\* negatives: a rejected candidate goes back, an accepted one does not, and
\* nothing is evicted or duplicated.  So the pool, which starts full, is
\* smaller by exactly the negatives emitted: by num_negative when a window's
\* positive pair is due, and by windows * num_negative when the sampling of
\* the dialogue has ended.
C13_PoolLosesOnlyEmittedNegatives ==
    /\ [][(pc \in { "draw", "retry", "positive" })
            => \A u \in Utterances : Held(u)' = Held(u)]_vars
    /\ [](pc \in { "draw", "retry", "positive" }
            => Len(buffer) + NegativesOut + (IF negative # 0 THEN 1 ELSE 0)
                 = buffer_size)
    /\ [](pc = "positive" => Len(buffer) = buffer_size - (i + 1) * num_negative)
    /\ []((pc = "idle" /\ mode = "steady")
            => Len(buffer) = buffer_size - Windows(dialogue) * num_negative)

\* C13 witness: both negatives of a window have been emitted after at least
\* one rejected candidate was pushed back.
C13_Witness ==
    /\ pc = "positive"
    /\ num_negative = 2
    /\ k = 2
    /\ loop_c < Len(buffer) + k

(***************************************************************************)
(* C14                                                                     *)
(***************************************************************************)

\* C14: the carry-over changes only when a run of __call__ starts; that run
\* inserts into the pool the first min(len(carry), buffer_size - len(pool))
\* utterances of the carry-over it finds, in order and behind the unchanged
\* pool contents (a warmup run then appends utterances of its own dialogue
\* behind them, any other run leaves the pool at that), and it replaces the
\* carry-over by a leading slice of its own dialogue, so that the utterances
\* that did not fit are gone.
C14_CarryOverInsertedOnce ==
    /\ [][EnterStep
            => /\ Len(buffer') >= Len(Carried)
               /\ SubSeq(buffer', 1, Len(Carried)) = Carried
               /\ (Len(Carried) = buffer_size => buffer' = Carried)
               /\ \E n \in 0 .. Len(dialogue') :
                      prev_utterances' = SubSeq(dialogue', 1, n)]_vars
    /\ [][~EnterStep => prev_utterances' = prev_utterances]_vars

\* C14 witness: the second call found room for one of the two distinct
\* carry-over utterances of the first; the other one was discarded.
C14_Witness ==
    /\ DocumentedArgs
    /\ calls = 2
    /\ pc = "idle"
    /\ mode = "steady"
    /\ buffer_size = 3
    /\ Len(initial_samples) = 1
    /\ LET s == initial_samples[1]
       IN  /\ Len(s) = 2
           /\ s[1] # s[2]
           /\ buffer = << s[2], s[1], s[1] >>

(***************************************************************************)
(* C15                                                                     *)
(***************************************************************************)

\* C15: after a run of __call__ on a dialogue, the carry-over is the leading
\* slice of that dialogue of length min((len - context_size) * num_negative,
\* len), which is empty when the dialogue is no longer than context_size.
C15_CarryOverIsLeadingSlice ==
    (DocumentedArgs /\ mode # "none")
        => LET n == Min((Len(dialogue) - context_size) * num_negative, Len(dialogue))
           IN  /\ prev_utterances = SubSeq(dialogue, 1, Max(0, n))
               /\ Len(prev_utterances) <= Windows(dialogue) * num_negative
               /\ Len(dialogue) <= context_size => prev_utterances = << >>

(***************************************************************************)
(* C16                                                                     *)
(***************************************************************************)

\* C16: every draw of a window starts with a retry budget of its own, equal
\* to the size of the pool at the start of that draw, whatever the earlier
\* draws of the window have spent.
C16_BudgetPerDraw ==
    (DocumentedArgs /\ pc = "draw") => loop_c = Len(buffer)

(***************************************************************************)
(* C17                                                                     *)
(***************************************************************************)

\* C17: once a run of __call__ has found the pool at buffer_size (it took
\* the STEADY or the FLUSH branch), no later run takes the WARMUP branch, and
\* no dialogue is added to the deferred ones any more.
C17_NoFallBackToWarmup ==
    [][(DocumentedArgs /\ mode \in { "steady", "flush" })
         => /\ mode' # "warmup"
            /\ Len(initial_samples') <= Len(initial_samples)]_vars

(***************************************************************************)
(* C18                                                                     *)
(***************************************************************************)

\* C18: the pass counter stays within 0 .. total_dialogues, and a run of
\* __call__ that raises it to total_dialogues resets it to 0 before it ends,
\* so that no run leaves it at total_dialogues.
C18_CounterWithinPass ==
    DocumentedArgs
        => /\ counter \in 0 .. total_dialogues
           /\ pc = "idle" => counter < total_dialogues

(***************************************************************************)
(* C19                                                                     *)
(***************************************************************************)

\* No call is being consumed: the program is not constructed, has raised an
\* error, or waits for the next top-level call.
CallOver ==
    \/ pc \in { "new", "config_error", "pool_exhausted", "deadlock" }
    \/ pc = "idle" /\ stack = << >>

====
